---------------------------- MODULE Spec2Model ----------------------------
(***************************************************************************)
(* Pointer recorder and player of agentGo.                                 *)
(*                                                                         *)
(*   recorder  src/recorder/main.go       normalised log, estimator call   *)
(*                                        in a goroutine                   *)
(*             src/unnamed/part_000       normalised log, estimator call   *)
(*                                        made by the tick handler itself  *)
(*   player    src/unnamed/part_002       normalised log                   *)
(*             src/unnamed/part_001:144+  raw integer log, no scaling      *)
(*             src/unnamed/part_003:1-93  raw integer log, scaled by       *)
(*                                        logical/physical                 *)
(*                                                                         *)
(* Times are milliseconds.  float64 values are modelled bit-exactly for    *)
(* the operations the programs use (int/int division, int*float product,   *)
(* decimal parsing, %.8f formatting, truncation to int): a float64 is a    *)
(* record [neg, m, x] standing for (-1)^neg * m * 2^x, m a natural number  *)
(* below 2^53 held as a sequence of 15-bit limbs, least significant first, *)
(* because the checker's integers are 32 bits wide.                        *)
(***************************************************************************)
EXTENDS Integers, Sequences, FiniteSets, TLC

\* F applied to the value of e: a statement sequence "v := e; F(v)", in which e
\* is computed before F starts
Then(e, F(_)) == LET S == {e} IN [v \in S |-> F(v)][CHOOSE v \in S : TRUE]

(***************************************************************************)
(* Multi-limb naturals.                                                    *)
(***************************************************************************)
Base == 2^15

RECURSIVE BigNorm(_)
BigNorm(a) ==
    IF a = <<>> THEN <<>>
    ELSE IF a[Len(a)] = 0 THEN BigNorm(SubSeq(a, 1, Len(a) - 1))
    ELSE a

RECURSIVE BigFromInt(_)
BigFromInt(n) ==
    IF n = 0 THEN <<>> ELSE <<n % Base>> \o BigFromInt(n \div Base)

RECURSIVE BigToInt(_)
BigToInt(a) ==
    IF a = <<>> THEN 0 ELSE a[1] + Base * BigToInt(Tail(a))

RECURSIVE BigMulCarry(_, _, _)
BigMulCarry(a, m, c) ==
    IF a = <<>> THEN BigFromInt(c)
    ELSE LET t == a[1] * m + c
         IN  <<t % Base>> \o BigMulCarry(Tail(a), m, t \div Base)

\* a * m for 0 <= m < Base
BigMulSmall(a, m) == BigNorm(BigMulCarry(a, m, 0))

\* one step of long division: hi is the result for the limbs above lo
BigDivStep(hi, lo, d) ==
    IF hi.r = 0 THEN [q |-> <<lo \div d>> \o hi.q, r |-> lo % d]
    ELSE [q |-> <<(hi.r * Base + lo) \div d>> \o hi.q, r |-> (hi.r * Base + lo) % d]

RECURSIVE BigDivRec(_, _)
BigDivRec(a, d) ==
    IF a = <<>> THEN [q |-> <<>>, r |-> 0]
    ELSE BigDivStep(BigDivRec(Tail(a), d), a[1], d)

\* quotient and remainder of a by d, 0 < d <= Base
BigDivSmall(a, d) ==
    LET qr == BigDivRec(a, d) IN [q |-> BigNorm(qr.q), r |-> qr.r]

RECURSIVE BigAddCarry(_, _)
BigAddCarry(a, c) ==
    IF c = 0 THEN a
    ELSE IF a = <<>> THEN <<c>>
    ELSE LET t == a[1] + c
         IN  <<t % Base>> \o BigAddCarry(Tail(a), t \div Base)

BigIsOdd(a) == a # <<>> /\ a[1] % 2 = 1

\* the number of bits of n, 0 <= n <= Base
IntBitLen(n) == Cardinality({k \in 0..15 : 2^k <= n})

LimbBits == IntBitLen(Base) - 1

BigBitLen(a) ==
    IF a = <<>> THEN 0 ELSE (Len(a) - 1) * LimbBits + IntBitLen(a[Len(a)])

BigShiftLeftLimbs(a, k) ==
    IF a = <<>> THEN <<>> ELSE [i \in 1..k |-> 0] \o a

\* floor(a / 2^s) and whether any dropped bit was set, s >= 0
BigShiftRight(a, s) ==
    LET ls      == s \div LimbBits
        bs      == s % LimbBits
        dropped == SubSeq(a, 1, IF ls < Len(a) THEN ls ELSE Len(a))
        rest    == IF ls < Len(a) THEN SubSeq(a, ls + 1, Len(a)) ELSE <<>>
        qr      == BigDivSmall(rest, 2^bs)
    IN  [q |-> qr.q,
         sticky |-> (qr.r # 0) \/ (\E i \in 1..Len(dropped) : dropped[i] # 0)]

\* a / 2^s rounded to the nearest integer, ties to even, s >= 1
RoundHalf(h, sticky0) ==
    LET m0 == BigDivSmall(h.q, 2).q
        up == BigIsOdd(h.q) /\ (h.sticky \/ sticky0 \/ BigIsOdd(m0))
    IN  IF up THEN BigNorm(BigAddCarry(m0, 1)) ELSE m0

BigShiftRightRNE(a, s, sticky0) ==
    Then(BigShiftRight(a, s - 1), LAMBDA h : RoundHalf(h, sticky0))

(***************************************************************************)
(* float64                                                                 *)
(***************************************************************************)
\* 52 stored bits and the leading one
MantBits == 52 + 1
FZero == [neg |-> FALSE, m |-> <<>>, x |-> 0]

\* the float64 nearest to (-1)^neg * n * 2^x (round to nearest, ties to even)
FRound(neg, n, x, sticky) ==
    LET nb == BigBitLen(n)
    IN  IF n = <<>> THEN FZero
        ELSE IF nb <= MantBits THEN [neg |-> neg, m |-> n, x |-> x]
        ELSE [neg |-> neg,
              m   |-> BigShiftRightRNE(n, nb - MantBits, sticky),
              x   |-> x + (nb - MantBits)]

\* a divided by ds[1], then by ds[2], ...: the quotient and whether any
\* division left a remainder
RECURSIVE BigDivChain(_, _)
BigDivChain(a, ds) ==
    IF ds = <<>> THEN [q |-> a, sticky |-> FALSE]
    ELSE LET qr == BigDivSmall(a, Head(ds))
         IN  IF qr.r = 0 THEN BigDivChain(qr.q, Tail(ds))
             ELSE [q |-> BigDivChain(qr.q, Tail(ds)).q, sticky |-> TRUE]

\* the float64 nearest to (-1)^neg * n / (ds[1] * ... * ds[k]), 0 < ds[i] <= Base:
\* the quotient is taken with at least two bits more than a mantissa holds,
\* then rounded once
RECURSIVE DivisorBits(_)
DivisorBits(ds) == IF ds = <<>> THEN 0 ELSE IntBitLen(Head(ds)) + DivisorBits(Tail(ds))

FFromRatio(neg, n, ds) ==
    LET need == MantBits + 2 + DivisorBits(ds) - BigBitLen(n)
        g    == IF need <= 0 THEN 0 ELSE (need + LimbBits - 1) \div LimbBits
    IN  Then(BigDivChain(BigShiftLeftLimbs(n, g), ds),
             LAMBDA t : FRound(neg, t.q, -(g * LimbBits), t.sticky))

\* float64(n) for an int n, |n| < 2^31
FFromInt(n) ==
    IF n < 0 THEN [neg |-> TRUE, m |-> BigFromInt(-n), x |-> 0]
    ELSE [neg |-> FALSE, m |-> BigFromInt(n), x |-> 0]

\* float64(a) / float64(b) for ints a, b with 0 < b <= Base
FDivInt(a, b) ==
    IF a < 0 THEN FFromRatio(TRUE, BigFromInt(-a), <<b>>)
    ELSE FFromRatio(FALSE, BigFromInt(a), <<b>>)

\* f * float64(w) for an int w, |w| < Base
FMulInt(f, w) ==
    LET aw == IF w < 0 THEN -w ELSE w
    IN  Then(BigMulSmall(f.m, aw), LAMBDA p : FRound(f.neg # (w < 0), p, f.x, FALSE))

\* Go's int(f): truncation toward zero (|f| < 2^31)
FToInt(f) ==
    LET mag == IF f.x >= 0 THEN BigToInt(f.m) * 2^f.x
               ELSE BigToInt(BigShiftRight(f.m, -f.x).q)
    IN  IF f.neg THEN -mag ELSE mag

(***************************************************************************)
(* Text of a CSV field: a sequence of one-character strings.               *)
(***************************************************************************)
DigitChars == <<"0", "1", "2", "3", "4", "5", "6", "7", "8", "9">>
IsDigit(c) == \E i \in 1..10 : DigitChars[i] = c
DigitVal(c) == (CHOOSE i \in 1..10 : DigitChars[i] = c) - 1

RECURSIVE NatDigits(_)
NatDigits(n) ==
    IF n < 10 THEN <<DigitChars[n + 1]>>
    ELSE NatDigits(n \div 10) \o <<DigitChars[(n % 10) + 1]>>

\* fmt.Sprintf("%d", n)
FormatInt(n) == IF n < 0 THEN <<"-">> \o NatDigits(-n) ELSE NatDigits(n)

Pad4(n) ==
    <<DigitChars[(n \div 1000) + 1], DigitChars[((n \div 100) % 10) + 1],
      DigitChars[((n \div 10) % 10) + 1], DigitChars[(n % 10) + 1]>>

\* fmt.Sprintf("%.8f", f): the exact value of f rounded to 8 decimals, ties to even
\* the digits of |f| * 10^8 rounded to an integer, ties to even
Scaled8(f) ==
    Then(BigMulSmall(BigMulSmall(f.m, 10^4), 10^4),
         LAMBDA n : IF f.x >= 0
                    THEN BigShiftLeftLimbs(BigMulSmall(n, 2^(f.x % LimbBits)),
                                           f.x \div LimbBits)
                    ELSE BigShiftRightRNE(n, -f.x, FALSE))

FormatFloat8(f) ==
    LET body == Then(BigDivSmall(Scaled8(f), 10^4),
                     LAMBDA lo : Then(BigDivSmall(lo.q, 10^4),
                         LAMBDA hi : NatDigits(BigToInt(hi.q)) \o <<".">>
                                         \o Pad4(hi.r) \o Pad4(lo.r)))
    IN  IF f.neg THEN <<"-">> \o body ELSE body

AllDigits(s) == \A i \in 1..Len(s) : IsDigit(s[i])

RECURSIVE DigitsToInt(_)
DigitsToInt(s) ==
    IF s = <<>> THEN 0 ELSE DigitsToInt(SubSeq(s, 1, Len(s) - 1)) * 10 + DigitVal(s[Len(s)])

\* the natural number a digit string stands for, taken four digits at a time
RECURSIVE DigitsToBig(_)
DigitsToBig(s) ==
    IF Len(s) <= 4 THEN BigFromInt(DigitsToInt(s))
    ELSE BigNorm(BigAddCarry(BigMulCarry(DigitsToBig(SubSeq(s, 1, Len(s) - 4)), 10^4, 0),
                             DigitsToInt(SubSeq(s, Len(s) - 3, Len(s)))))

\* divisors whose product is 10^k, each at most 10^4
RECURSIVE PowersOfTen(_)
PowersOfTen(k) ==
    IF k = 0 THEN <<>>
    ELSE IF k >= 4 THEN <<10^4>> \o PowersOfTen(k - 4)
    ELSE <<10^k>>

HasSign(s) == s # <<>> /\ s[1] \in {"+", "-"}
Unsigned(s) == IF HasSign(s) THEN Tail(s) ELSE s

\* strconv.ParseInt(s, 10, 64) and strconv.Atoi(s): [ok, v]; values stay below 2^31
ParseInt(s) ==
    LET d == Unsigned(s)
    IN  IF d # <<>> /\ AllDigits(d)
        THEN [ok |-> TRUE,
              v  |-> IF HasSign(s) /\ s[1] = "-" THEN -DigitsToInt(d) ELSE DigitsToInt(d)]
        ELSE [ok |-> FALSE, v |-> 0]

\* strconv.ParseFloat(s, 64) on plain decimals "[+-]ddd[.ddd]".
\* Exponents, hex floats, inf and nan are outside the field alphabet of the model.
IntPart(d) ==
    LET dots == {i \in 1..Len(d) : d[i] = "."}
    IN  IF dots = {} THEN d ELSE SubSeq(d, 1, (CHOOSE i \in dots : TRUE) - 1)

FracPart(d) ==
    LET dots == {i \in 1..Len(d) : d[i] = "."}
    IN  IF dots = {} THEN <<>> ELSE SubSeq(d, (CHOOSE i \in dots : TRUE) + 1, Len(d))

\* whether ParseFloat returns no error
ParseFloatOk(s) ==
    LET d == Unsigned(s)
    IN  /\ Cardinality({i \in 1..Len(d) : d[i] = "."}) <= 1
        /\ AllDigits(IntPart(d))
        /\ AllDigits(FracPart(d))
        /\ Len(IntPart(d)) + Len(FracPart(d)) >= 1

\* the value ParseFloat returns: the float64 nearest to the decimal
ParseFloat(s) ==
    LET d == Unsigned(s)
    IN  IF ParseFloatOk(s)
        THEN Then(DigitsToBig(IntPart(d) \o FracPart(d)),
                  LAMBDA n : FFromRatio(HasSign(s) /\ s[1] = "-", n,
                                        PowersOfTen(Len(FracPart(d)))))
        ELSE FZero

(***************************************************************************)
(* State.                                                                  *)
(***************************************************************************)
VARIABLES
    \* ---- player ----
    pvariant,       \* which player program runs: "norm", "raw" or "scaled"
    file,           \* mouse_movements.csv as the csv reader sees it: records of fields
    pgeom,          \* what robotgo.GetScreenSize / screenshot.GetDisplayBounds report
    ppc,            \* position of the player's main
    records,        \* records after the header row is removed
    idx,            \* loop index i of "for i, record := range records"
    lastTimestamp,  \* var lastTimestamp int64
    played,         \* one entry per row that reached robotgo.Move, in issue order
    diags,          \* row indexes for which a per-row diagnostic was logged
    inflight,       \* robotgo.Move calls that have not returned
    pclock,         \* time spent since "Starting mouse playback..."
    lagged,         \* whether a positioning command already took extra time
    \* ---- recorder ----
    rvariant,       \* which recorder program runs: "async", "sync", "estimated" or
                    \* "estimated_scaled"
    renv,           \* the run's surroundings: credential, client, file system, pointer path
    rgeom,          \* what robotgo.GetScreenSize / screenshot.GetDisplayBounds report
    rpc,            \* position of the recorder's main
    now,            \* milliseconds since the recorder's context was created
    deadline,       \* deadline of ctx (context.WithTimeout)
    tickerAt,       \* when the ticker fires next; -1 while there is no running ticker
    tickC,          \* ticker.C: at most one buffered tick, holding the time it was sent
    startTime,      \* startTime := time.Now()
    tick,           \* t, the tick the handler is working on
    buffer,         \* records written to the csv.Writer and not yet flushed
    disk,           \* records of mouse_movements.csv on disk
    appended,       \* sample records whose writer.Write has returned
    outstanding,    \* estimator calls running in goroutines
    overruns,       \* tick periods spent inside a handler so far
    dropped,        \* ticks the ticker could not deliver (ticker.C was full)
    handled,        \* ticks received from ticker.C, in order
    estHeld,        \* ticks that came due while main was inside the estimator call,
                    \* each with the tick whose handler made that call
    softFailed,     \* whether a per-tick failure has been logged
    finished,       \* number of "Recording finished." notifications
    \* ---- coordinate conversions applied to one position ----
    conv            \* the position, the two geometries, and each conversion's result

pvars == <<pvariant, file, pgeom, ppc, records, idx, lastTimestamp, played, diags,
           inflight, pclock, lagged>>
rconf == <<rvariant, renv, rgeom>>
rtime == <<now, deadline, tickerAt, tickC, startTime>>
rlog  == <<buffer, disk, appended>>
rhist == <<overruns, dropped, handled, estHeld, softFailed, finished>>
rvars == <<rconf, rpc, rtime, tick, rlog, outstanding, rhist>>
vars  == <<pvars, rvars, conv>>

(***************************************************************************)
(* Player: src/unnamed/part_002 ("norm"), src/unnamed/part_001:144-216     *)
(* ("raw"), src/unnamed/part_003:1-93 ("scaled").                          *)
(***************************************************************************)
PlayerVariants == {"norm", "raw", "scaled"}

\* csv.Reader.ReadAll with the default FieldsPerRecord = 0: the first record
\* sets the field count every later record must have (csv.ErrFieldCount).
ReadAll(f) ==
    IF \E i \in 1..Len(f) : Len(f[i]) # Len(f[1])
    THEN [err |-> TRUE, records |-> <<>>]
    ELSE [err |-> FALSE, records |-> f]

\* "if len(records) > 0 { records = records[1:] }"
RemoveHeader(rs) == IF Len(rs) > 0 THEN Tail(rs) ELSE rs

\* strconv.ParseFloat in part_002, strconv.Atoi in part_001 and part_003
CoordOk(variant, s) ==
    IF variant = "norm" THEN ParseFloatOk(s) ELSE ParseInt(s).ok

\* the three "continue" branches of the loop body
RowOk(variant, record) ==
    /\ Len(record) = 3
    /\ ParseInt(record[1]).ok
    /\ CoordOk(variant, record[2])
    /\ CoordOk(variant, record[3])

\* the argument of robotgo.Move for one axis
FinalCoord(variant, s, logical, physical) ==
    CASE variant = "norm"   ->
             Then(ParseFloat(s), LAMBDA normX : Then(FMulInt(normX, logical), FToInt))
      [] variant = "raw"    -> ParseInt(s).v
      [] variant = "scaled" ->
             Then(FDivInt(logical, physical),
                  LAMBDA xScale : Then(FMulInt(xScale, ParseInt(s).v), FToInt))

FinalPos(variant, record, g) ==
    <<FinalCoord(variant, record[2], g.lw, g.pw),
      FinalCoord(variant, record[3], g.lh, g.ph)>>

\* PlayerDelay as it would be if the delay were taken from the start of the log
PlayerDelayFromZero(timestamp, last) == timestamp

\* "delay := time.Duration(timestamp-lastTimestamp) * time.Millisecond"
PlayerDelay(timestamp, last) == timestamp - last

\* "if i > 0 { ... time.Sleep(delay) }": the Sleep calls made for row i (0-based)
SleepCalls(i, timestamp, last) ==
    IF i > 0 THEN <<PlayerDelay(timestamp, last)>> ELSE <<>>

\* time.Sleep returns immediately for a zero or negative duration
Slept(calls) == IF calls # <<>> /\ calls[1] > 0 THEN calls[1] ELSE 0

PlayerOpen ==
    /\ ppc = "open"
    /\ ppc' = "read"
    /\ UNCHANGED <<pvariant, file, pgeom, records, idx, lastTimestamp, played, diags,
                   inflight, pclock, lagged>>

\* os.Open fails: log.Fatalf
PlayerOpenFail ==
    /\ ppc = "open"
    /\ ppc' = "fatal_open"
    /\ UNCHANGED <<pvariant, file, pgeom, records, idx, lastTimestamp, played, diags,
                   inflight, pclock, lagged>>

PlayerReadAll ==
    /\ ppc = "read"
    /\ LET r == ReadAll(file)
       IN  IF r.err
           THEN /\ ppc' = "fatal_read"
                /\ UNCHANGED records
           ELSE /\ ppc' = "geometry"
                /\ records' = RemoveHeader(r.records)
    /\ UNCHANGED <<pvariant, file, pgeom, idx, lastTimestamp, played, diags,
                   inflight, pclock, lagged>>

\* part_003:40-42 is the only player that checks a dimension, and only the physical ones
PlayerGeometry ==
    /\ ppc = "geometry"
    /\ ppc' = IF pvariant = "scaled" /\ (pgeom.pw = 0 \/ pgeom.ph = 0)
              THEN "fatal_geom" ELSE "loop"
    /\ UNCHANGED <<pvariant, file, pgeom, records, idx, lastTimestamp, played, diags,
                   inflight, pclock, lagged>>

\* a row that takes one of the "continue" branches
PlayerSkipRow ==
    /\ ppc = "loop"
    /\ idx < Len(records)
    /\ ~RowOk(pvariant, records[idx + 1])
    /\ diags' = Append(diags, idx)
    /\ idx' = idx + 1
    /\ UNCHANGED <<pvariant, file, pgeom, ppc, records, lastTimestamp, played,
                   inflight, pclock, lagged>>

\* PlayerMoveCall as it would be if the loop did not wait for robotgo.Move to return
PlayerMoveCallDetached ==
    /\ ppc = "loop"
    /\ idx < Len(records)
    /\ RowOk(pvariant, records[idx + 1])
    /\ LET record    == records[idx + 1]
           timestamp == ParseInt(record[1]).v
           calls     == SleepCalls(idx, timestamp, lastTimestamp)
       IN  /\ pclock' = pclock + Slept(calls)
           /\ lastTimestamp' = timestamp
           /\ played' = Append(played,
                  [row |-> idx, timestamp |-> timestamp, sleep |-> calls,
                   at |-> pclock + Slept(calls),
                   pos |-> FinalPos(pvariant, record, pgeom)])
    /\ inflight' = inflight + 1
    /\ idx' = idx + 1
    /\ UNCHANGED <<pvariant, file, pgeom, ppc, records, diags, lagged>>

\* a row that parses: wait, remember its timestamp, call robotgo.Move
PlayerMoveCall ==
    /\ ppc = "loop"
    /\ idx < Len(records)
    /\ RowOk(pvariant, records[idx + 1])
    /\ LET record    == records[idx + 1]
           timestamp == ParseInt(record[1]).v
           calls     == SleepCalls(idx, timestamp, lastTimestamp)
       IN  /\ pclock' = pclock + Slept(calls)
           /\ lastTimestamp' = timestamp
           /\ played' = Append(played,
                  [row |-> idx, timestamp |-> timestamp, sleep |-> calls,
                   at |-> pclock + Slept(calls),
                   pos |-> FinalPos(pvariant, record, pgeom)])
    /\ inflight' = inflight + 1
    /\ ppc' = "moving"
    /\ UNCHANGED <<pvariant, file, pgeom, records, idx, diags, lagged>>

\* robotgo.Move returns, at once or (once in a run) after MoveLag milliseconds
PlayerMoveReturn(lag) ==
    /\ ppc = "moving"
    /\ lag > 0 => ~lagged
    /\ lagged' = (lagged \/ lag > 0)
    /\ pclock' = pclock + lag
    /\ inflight' = inflight - 1
    /\ idx' = idx + 1
    /\ ppc' = "loop"
    /\ UNCHANGED <<pvariant, file, pgeom, records, lastTimestamp, played, diags>>

\* "Playback finished."
PlayerFinish ==
    /\ ppc = "loop"
    /\ idx = Len(records)
    /\ ppc' = "done"
    /\ UNCHANGED <<pvariant, file, pgeom, records, idx, lastTimestamp, played, diags,
                   inflight, pclock, lagged>>

(***************************************************************************)
(* Recorder: src/recorder/main.go ("async") and src/unnamed/part_000       *)
(* ("sync").  The two differ in how the estimator is called: in a          *)
(* goroutine (main.go:135-140) or by the tick handler itself               *)
(* (part_000:134-138).                                                     *)
(***************************************************************************)
RecorderVariants == {"async", "sync"}

recordingTime == 10000
tickPeriod == 1000

\* []string{"timestamp", "norm_x", "norm_y"}: text other than digits, sign and
\* point is held as one opaque token per field
Header == <<<<"timestamp">>, <<"norm_x">>, <<"norm_y">>>>

\* the pointer's path: where robotgo.GetMousePos finds it at a given time
MouseAt(path, time, g) ==
    IF path = "still" THEN <<g.lw \div 2, g.lh \div 2>>
    ELSE <<(time \div 10) % g.lw, (time \div 20) % g.lh>>

\* main.go:84-93: normalise by the logical size, print with 8 decimals
NormRecord(timestamp, mouseX, mouseY, g) ==
    <<FormatInt(timestamp),
      Then(FDivInt(mouseX, g.lw), FormatFloat8),
      Then(FDivInt(mouseY, g.lh), FormatFloat8)>>

\* Timestamp as it would be with the subtraction the wrong way round
TimestampReversed(t, start) == start - t

\* "timestamp := t.Sub(startTime).Milliseconds()"
Timestamp(t, start) == t - start

\* csv.Writer.Write: the record goes to the writer's buffer (bufio, 4096 bytes; a
\* whole recording is a few hundred bytes, so nothing reaches the file before Flush)
WriterWrite(buf, record) == Append(buf, record)

\* WriteHeader as it would be if the header were never written
WriteHeaderMissing(buf) == buf

\* "writer.Write([]string{"timestamp", "norm_x", "norm_y"})"
WriteHeader(buf) == WriterWrite(buf, Header)

\* WriterFlush as it would be if the file were closed before the writer is flushed
WriterFlushAfterClose(d, buf) == d

\* csv.Writer.Flush: what the buffer holds goes to the file
WriterFlush(d, buf) == d \o buf

CtxDone == deadline >= 0 /\ now >= deadline

\* main.go:26-33: the credential check, then the context with its deadline
RecStart ==
    /\ rpc = "start"
    /\ IF renv.apiKey
       THEN /\ rpc' = "client"
            /\ deadline' = now + recordingTime
       ELSE /\ rpc' = "fatal_key"
            /\ UNCHANGED deadline
    /\ UNCHANGED <<rconf, now, tickerAt, tickC, startTime, tick, rlog, outstanding, rhist>>

\* RecClient as it would be if the error of genai.NewClient were ignored
RecClientUnchecked ==
    /\ rpc = "client"
    /\ rpc' = "create"
    /\ UNCHANGED <<rconf, rtime, tick, rlog, outstanding, rhist>>

\* main.go:35-42: genai.NewClient
RecClient ==
    /\ rpc = "client"
    /\ rpc' = IF renv.clientOk THEN "create" ELSE "fatal_client"
    /\ UNCHANGED <<rconf, rtime, tick, rlog, outstanding, rhist>>

\* main.go:45-52: os.Create truncates the file
RecCreate ==
    /\ rpc = "create"
    /\ IF renv.createOk
       THEN /\ rpc' = "header"
            /\ disk' = <<>>
       ELSE /\ rpc' = "fatal_create"
            /\ UNCHANGED disk
    /\ UNCHANGED <<rconf, rtime, tick, buffer, appended, outstanding, rhist>>

\* main.go:55-57
RecHeader ==
    /\ rpc = "header"
    /\ buffer' = WriteHeader(buffer)
    /\ rpc' = "ticker"
    /\ UNCHANGED <<rconf, rtime, tick, disk, appended, outstanding, rhist>>

\* milliseconds between context.WithTimeout and time.NewTicker, and between
\* time.NewTicker and time.Now(): the same millisecond or the next
SetupLags == {0, 1}
StartLags == {0, 1}
MaxOverruns == 2

\* main.go:61-74: the ticker is armed d1 ms after the context was created, and
\* startTime is read d2 ms after the ticker was armed
RecTicker(d1, d2) ==
    /\ rpc = "ticker"
    /\ tickerAt' = now + d1 + tickPeriod
    /\ startTime' = now + d1 + d2
    /\ now' = now + d1 + d2
    /\ rpc' = "select"
    /\ UNCHANGED <<rconf, deadline, tickC, tick, rlog, outstanding, rhist>>

Running == rpc \in {"select", "capture", "estimate"}

\* time.Ticker: a tick is sent without blocking; with a tick still waiting in
\* ticker.C the new one is dropped
TickerFire ==
    /\ Running
    /\ tickerAt = now
    /\ IF tickC = <<>>
       THEN /\ tickC' = <<now>>
            /\ UNCHANGED dropped
       ELSE /\ dropped' = Append(dropped, now)
            /\ UNCHANGED tickC
    /\ tickerAt' = tickerAt + tickPeriod
    /\ estHeld' = IF rpc = "estimate"
                  THEN Append(estHeld, [due |-> now, during |-> tick])
                  ELSE estHeld
    /\ UNCHANGED <<rconf, rpc, now, deadline, startTime, tick, rlog, outstanding,
                   overruns, handled, softFailed, finished>>

\* Time passes to the next tick or the deadline: while main is blocked in select,
\* or while a handler is inside the capture or inside the estimator call.
Wait ==
    /\ Running
    /\ rpc = "select" => (tickC = <<>> /\ ~CtxDone)
    /\ rpc = "estimate" => ~CtxDone
    /\ rpc # "select" => overruns < MaxOverruns
    /\ tickerAt > now
    /\ LET next == IF now < deadline /\ deadline < tickerAt THEN deadline ELSE tickerAt
       IN  /\ next <= deadline + tickPeriod
           /\ now' = next
    /\ overruns' = IF rpc = "select" THEN overruns ELSE overruns + 1
    /\ UNCHANGED <<rconf, rpc, deadline, tickerAt, tickC, startTime, tick, rlog,
                   outstanding, dropped, handled, estHeld, softFailed, finished>>

\* main.go:78-80 and the deferred calls, last first: ticker.Stop, writer.Flush,
\* file.Close, client.Close, cancel
RecSelectDone ==
    /\ rpc = "select"
    /\ CtxDone
    /\ finished' = finished + 1
    /\ tickerAt' = -1
    /\ disk' = WriterFlush(disk, buffer)
    /\ buffer' = <<>>
    /\ rpc' = "done"
    /\ UNCHANGED <<rconf, now, deadline, tickC, startTime, tick, appended, outstanding,
                   overruns, dropped, handled, estHeld, softFailed>>

\* main.go:81-97: receive the tick, read the pointer, normalise, write the record
RecSelectTick ==
    /\ rpc = "select"
    /\ tickC # <<>>
    /\ LET t      == Head(tickC)
           mouse  == MouseAt(renv.path, now, rgeom)
           record == NormRecord(Timestamp(t, startTime), mouse[1], mouse[2], rgeom)
       IN  /\ tick' = t
           /\ buffer' = WriterWrite(buffer, record)
           /\ appended' = Append(appended, record)
           /\ handled' = Append(handled, t)
    /\ tickC' = <<>>
    /\ rpc' = "capture"
    /\ UNCHANGED <<rconf, now, deadline, tickerAt, startTime, disk, outstanding,
                   overruns, dropped, estHeld, softFailed, finished>>

AnalyseOutcomes == {"capture_failed", "encode_failed", "debug_failed", "ok"}

\* whether the tick handler itself waits for the estimator's answer
\* (part_000:134) or hands the call to a goroutine (main.go:135)
EstimatorInline(variant) == variant = "sync"

\* main.go:101-140: capture, draw, encode, debug file, estimator call
RecAnalyse(outcome) ==
    /\ rpc = "capture"
    /\ softFailed' = (softFailed \/ outcome # "ok")
    /\ IF outcome \in {"capture_failed", "encode_failed"}
       THEN /\ rpc' = "select"
            /\ UNCHANGED outstanding
       ELSE IF EstimatorInline(rvariant)
       THEN /\ rpc' = "estimate"
            /\ UNCHANGED outstanding
       ELSE /\ rpc' = "select"
            /\ outstanding' = outstanding + 1
    /\ UNCHANGED <<rconf, rtime, tick, rlog, overruns, dropped, handled, estHeld, finished>>

\* RecEstimateReturn as it would be if the call were not bound to ctx: it returns
\* only when the estimator answers
RecEstimateReturnUnbound(ok) ==
    /\ rpc = "estimate"
    /\ ok
    /\ ~CtxDone
    /\ UNCHANGED softFailed
    /\ rpc' = "select"
    /\ UNCHANGED <<rconf, rtime, tick, rlog, outstanding, overruns, dropped, handled,
                   estHeld, finished>>

\* part_000:134-164: model.GenerateContent(ctx, ...) returns to the handler; it
\* can only fail once ctx is done
RecEstimateReturn(ok) ==
    /\ rpc = "estimate"
    /\ ok => ~CtxDone
    /\ softFailed' = (softFailed \/ ~ok)
    /\ rpc' = "select"
    /\ UNCHANGED <<rconf, rtime, tick, rlog, outstanding, overruns, dropped, handled,
                   estHeld, finished>>

\* main.go:135-140: a goroutine's model.GenerateContent(ctx, ...) returns
EstGoroutineReturn(ok) ==
    /\ Running
    /\ outstanding > 0
    /\ ok => ~CtxDone
    /\ outstanding' = outstanding - 1
    /\ softFailed' = (softFailed \/ ~ok)
    /\ UNCHANGED <<rconf, rpc, rtime, tick, rlog, overruns, dropped, handled, estHeld,
                   finished>>

\* the process is killed: what the writer buffered is gone
RecKill ==
    /\ rpc \in {"header", "ticker", "select", "capture", "estimate"}
    /\ rpc' = "killed"
    /\ buffer' = <<>>
    /\ tickerAt' = -1
    /\ tickC' = <<>>
    /\ outstanding' = 0
    /\ UNCHANGED <<rconf, now, deadline, startTime, tick, disk, appended, rhist>>

(***************************************************************************)
(* Coordinate conversions, applied to one position.                        *)
(***************************************************************************)
Geometry(lw, lh, pw, ph) == [lw |-> lw, lh |-> lh, pw |-> pw, ph |-> ph]

\* DrawCoord as it would be with the scale taken the wrong way round
DrawCoordInverted(mouse, logical, physical) ==
    Then(FDivInt(logical, physical), LAMBDA xScale : Then(FMulInt(xScale, mouse), FToInt))

\* main.go:73-74, 112-113: "xScale := float64(physicalWidth) / float64(logicalWidth)",
\* "drawX := int(float64(mouseX) * xScale)"
DrawCoord(mouse, logical, physical) ==
    Then(FDivInt(physical, logical), LAMBDA xScale : Then(FMulInt(xScale, mouse), FToInt))

DrawPos(pos, g) == <<DrawCoord(pos[1], g.lw, g.pw), DrawCoord(pos[2], g.lh, g.ph)>>

\* the record a recorder of raw pixel positions writes (part_003:220)
RawRecord(timestamp, x, y) == <<FormatInt(timestamp), FormatInt(x), FormatInt(y)>>

\* recorder/main.go:83-93 on conv.pos under conv.grec
ConvNormalize ==
    /\ conv.text = <<>>
    /\ conv' = [conv EXCEPT !.text = NormRecord(0, conv.pos[1], conv.pos[2], conv.grec)]

\* part_002:53-73 on that record under conv.gplay
ConvReplay ==
    /\ conv.text # <<>>
    /\ conv.replay = <<>>
    /\ conv' = [conv EXCEPT !.replay = FinalPos("norm", conv.text, conv.gplay)]

\* recorder/main.go:112-113 on conv.pos under conv.grec
ConvToPhysical ==
    /\ conv.phys = <<>>
    /\ conv' = [conv EXCEPT !.phys = DrawPos(conv.pos, conv.grec)]

\* part_003:44-45, 67-87 on that physical position under conv.grec
ConvToLogical ==
    /\ conv.phys # <<>>
    /\ conv.back = <<>>
    /\ conv' = [conv EXCEPT
                  !.back = FinalPos("scaled", RawRecord(0, conv.phys[1], conv.phys[2]),
                                    conv.grec)]

(***************************************************************************)
(* Specifications.                                                         *)
(***************************************************************************)

PlayerIdle ==
    /\ pvariant = "norm"
    /\ file = <<>>
    /\ pgeom = Geometry(1, 1, 1, 1)
    /\ ppc = "idle"
    /\ records = <<>>
    /\ idx = 0
    /\ lastTimestamp = 0
    /\ played = <<>>
    /\ diags = <<>>
    /\ inflight = 0
    /\ pclock = 0
    /\ lagged = FALSE

ConvIdle ==
    conv = [grec |-> Geometry(1, 1, 1, 1), gplay |-> Geometry(1, 1, 1, 1), pos |-> <<0, 0>>,
            text |-> <<>>, replay |-> <<>>, phys |-> <<>>, back |-> <<>>]

RecorderIdle ==
    /\ rvariant = "async"
    /\ renv = [apiKey |-> TRUE, clientOk |-> TRUE, createOk |-> TRUE, path |-> "still"]
    /\ rgeom = Geometry(1, 1, 1, 1)
    /\ rpc = "idle"
    /\ now = 0
    /\ deadline = -1
    /\ tickerAt = -1
    /\ tickC = <<>>
    /\ startTime = 0
    /\ tick = -1
    /\ buffer = <<>>
    /\ disk = <<>>
    /\ appended = <<>>
    /\ outstanding = 0
    /\ overruns = 0
    /\ dropped = <<>>
    /\ handled = <<>>
    /\ estHeld = <<>>
    /\ softFailed = FALSE
    /\ finished = 0

RecGeoms == {Geometry(1920, 1080, 3840, 2160)}

RecEnvs ==
    [apiKey : BOOLEAN, clientOk : BOOLEAN, createOk : BOOLEAN, path : {"still", "sweep"}]

RecInit ==
    /\ PlayerIdle
    /\ ConvIdle
    /\ rvariant \in RecorderVariants
    /\ renv \in RecEnvs
    /\ rgeom \in RecGeoms
    /\ rpc = "start"
    /\ now = 0
    /\ deadline = -1
    /\ tickerAt = -1
    /\ tickC = <<>>
    /\ startTime = 0
    /\ tick = -1
    /\ buffer = <<>>
    /\ disk = <<>>
    /\ appended = <<>>
    /\ outstanding = 0
    /\ overruns = 0
    /\ dropped = <<>>
    /\ handled = <<>>
    /\ estHeld = <<>>
    /\ softFailed = FALSE
    /\ finished = 0

RecNext ==
    \/ (RecStart /\ UNCHANGED <<pvars, conv>>)
    \/ (RecClient /\ UNCHANGED <<pvars, conv>>)
    \/ (RecCreate /\ UNCHANGED <<pvars, conv>>)
    \/ (RecHeader /\ UNCHANGED <<pvars, conv>>)
    \/ (\E d1 \in SetupLags, d2 \in StartLags : RecTicker(d1, d2) /\ UNCHANGED <<pvars, conv>>)
    \/ (TickerFire /\ UNCHANGED <<pvars, conv>>)
    \/ (Wait /\ UNCHANGED <<pvars, conv>>)
    \/ (RecSelectDone /\ UNCHANGED <<pvars, conv>>)
    \/ (RecSelectTick /\ UNCHANGED <<pvars, conv>>)
    \/ (\E o \in AnalyseOutcomes : RecAnalyse(o) /\ UNCHANGED <<pvars, conv>>)
    \/ (\E ok \in BOOLEAN : RecEstimateReturn(ok) /\ UNCHANGED <<pvars, conv>>)
    \/ (\E ok \in BOOLEAN : EstGoroutineReturn(ok) /\ UNCHANGED <<pvars, conv>>)
    \/ (RecKill /\ UNCHANGED <<pvars, conv>>)

SpecRecorder == RecInit /\ [][RecNext]_vars

MaxRows == 3
MoveLag == 250

\* []string{"timestamp", "x", "y"} (part_001:56, part_003:166), and a header of two columns
RawHeader == <<<<"timestamp">>, <<"x">>, <<"y">>>>
ShortHeader == <<<<"timestamp">>, <<"x">>>>

Garbage == <<"abc">>
ShortRow == <<FormatInt(1500), FormatInt(100)>>

\* the rows a log is made of: a normalised one, two of integers, one with an
\* unparsable timestamp, one with an unparsable coordinate, one of two fields
RowChoices ==
    { NormRecord(1000, 960, 270, Geometry(1920, 1080, 1920, 1080)),
      RawRecord(0, 100, 50),
      RawRecord(3000, 200, 100),
      <<Garbage, FormatInt(100), FormatInt(50)>>,
      <<FormatInt(1500), FormatInt(100), Garbage>>,
      ShortRow }

SeqsUpTo(S, n) == UNION {[1..k -> S] : k \in 0..n}

Files ==
    {<<>>}
    \cup {<<h>> \o rows : h \in {Header, RawHeader}, rows \in SeqsUpTo(RowChoices, MaxRows)}
    \cup {<<ShortHeader>> \o rows : rows \in SeqsUpTo({ShortRow}, MaxRows)}

\* the player that runs and the screen it runs on; only part_003 reads the physical
\* size and part_001 reads no size at all; the last three are screens whose
\* collaborator reports a zero size
PlayerSetups ==
    {<<"norm", Geometry(1920, 1080, 1920, 1080)>>,
     <<"norm", Geometry(1440, 900, 2880, 1800)>>,
     <<"raw", Geometry(1920, 1080, 1920, 1080)>>,
     <<"scaled", Geometry(1440, 900, 2880, 1800)>>,
     <<"scaled", Geometry(1920, 1080, 0, 0)>>,
     <<"scaled", Geometry(0, 0, 2880, 1800)>>,
     <<"norm", Geometry(0, 0, 0, 0)>>}

PlayerInit ==
    /\ RecorderIdle
    /\ ConvIdle
    /\ \E setup \in PlayerSetups :
          /\ pvariant = setup[1]
          /\ pgeom = setup[2]
    /\ file \in Files
    /\ ppc = "open"
    /\ records = <<>>
    /\ idx = 0
    /\ lastTimestamp = 0
    /\ played = <<>>
    /\ diags = <<>>
    /\ inflight = 0
    /\ pclock = 0
    /\ lagged = FALSE

PlayerNext ==
    \/ (PlayerOpen /\ UNCHANGED <<rvars, conv>>)
    \/ (PlayerOpenFail /\ UNCHANGED <<rvars, conv>>)
    \/ (PlayerReadAll /\ UNCHANGED <<rvars, conv>>)
    \/ (PlayerGeometry /\ UNCHANGED <<rvars, conv>>)
    \/ (PlayerSkipRow /\ UNCHANGED <<rvars, conv>>)
    \/ (PlayerMoveCall /\ UNCHANGED <<rvars, conv>>)
    \/ (\E lag \in {0, MoveLag} : PlayerMoveReturn(lag) /\ UNCHANGED <<rvars, conv>>)
    \/ (PlayerFinish /\ UNCHANGED <<rvars, conv>>)

SpecPlayer == PlayerInit /\ [][PlayerNext]_vars

(***************************************************************************)
(* Recorders whose rows hold the estimator's answer: src/unnamed/part_001   *)
(* lines 1-143 ("estimated": the answer's two fields as they come) and      *)
(* src/unnamed/part_003 lines 94-230 ("estimated_scaled": the answer        *)
(* parsed and scaled from physical to logical).  Both call the estimator    *)
(* from the tick handler and write the row, if any, after it has answered.  *)
(***************************************************************************)
EstRecorderVariants == {"estimated", "estimated_scaled"}

estRecordingTime == 30000

\* what strings.Split(strings.TrimSpace(coordsText), ",") can give: two numbers,
\* a number and other text, one field only; <<>> stands for a response without
\* candidates or without a text part
Answers ==
    {<<FormatInt(123), FormatInt(456)>>, <<FormatInt(12), Garbage>>, <<Garbage>>, <<>>}

\* the ticks of a run, counted from the first, whose handler may take time and
\* may get coordinates from the estimator; every later handler is quick and gets
\* an error or an answer without coordinates
EarlyTicks == 1

\* part_001:131-133 and part_003:210-220: the rows written for one answer
AnswerRecords(variant, timestamp, coords, g) ==
    IF Len(coords) # 2 THEN <<>>
    ELSE IF variant = "estimated"
    THEN <<<<FormatInt(timestamp), coords[1], coords[2]>>>>
    ELSE IF ParseInt(coords[1]).ok /\ ParseInt(coords[2]).ok
    THEN LET final == FinalPos("scaled", <<FormatInt(timestamp), coords[1], coords[2]>>, g)
         IN  <<RawRecord(timestamp, final[1], final[2])>>
    ELSE <<>>

\* part_001:27-34; part_003:119-144, where the screen sizes are read and the
\* physical one is tested before the context is created
EstRecStart ==
    /\ rpc = "start"
    /\ IF ~renv.apiKey
       THEN /\ rpc' = "fatal_key"
            /\ UNCHANGED deadline
       ELSE IF rvariant = "estimated_scaled" /\ (rgeom.pw = 0 \/ rgeom.ph = 0)
       THEN /\ rpc' = "fatal_geom"
            /\ UNCHANGED deadline
       ELSE /\ rpc' = "client"
            /\ deadline' = now + estRecordingTime
    /\ UNCHANGED <<rconf, now, tickerAt, tickC, startTime, tick, rlog, outstanding, rhist>>

\* part_001:56-58, part_003:166-168
EstRecHeader ==
    /\ rpc = "header"
    /\ buffer' = WriterWrite(buffer, RawHeader)
    /\ rpc' = "ticker"
    /\ UNCHANGED <<rconf, rtime, tick, disk, appended, outstanding, rhist>>

\* part_001:81-83, part_003:183: the tick is received; nothing is written yet
EstSelectTick ==
    /\ rpc = "select"
    /\ tickC # <<>>
    /\ tick' = Head(tickC)
    /\ handled' = Append(handled, Head(tickC))
    /\ tickC' = <<>>
    /\ rpc' = "capture"
    /\ UNCHANGED <<rconf, now, deadline, tickerAt, startTime, rlog, outstanding,
                   overruns, dropped, estHeld, softFailed, finished>>

\* part_003:185-196 has no debug file
EstAnalyseOutcomes(variant) ==
    IF variant = "estimated" THEN AnalyseOutcomes ELSE AnalyseOutcomes \ {"debug_failed"}

\* part_001:85-121, part_003:185-200: capture, encode, then the estimator is called
EstAnalyse(outcome) ==
    /\ rpc = "capture"
    /\ outcome \in EstAnalyseOutcomes(rvariant)
    /\ softFailed' = (softFailed \/ outcome # "ok")
    /\ rpc' = IF outcome \in {"capture_failed", "encode_failed"} THEN "select" ELSE "estimate"
    /\ UNCHANGED <<rconf, rtime, tick, rlog, outstanding, overruns, dropped, handled,
                   estHeld, finished>>

\* part_001:121-125, part_003:200-204: model.GenerateContent returns an error
EstFail ==
    /\ rpc = "estimate"
    /\ softFailed' = TRUE
    /\ rpc' = "select"
    /\ UNCHANGED <<rconf, rtime, tick, rlog, outstanding, overruns, dropped, handled,
                   estHeld, finished>>

\* part_001:127-140, part_003:206-228: model.GenerateContent returns an answer
\* and the handler writes the row it makes of it
EstAnswer(coords) ==
    /\ rpc = "estimate"
    /\ ~CtxDone
    /\ LET rows == AnswerRecords(rvariant, Timestamp(tick, startTime), coords, rgeom)
       IN  /\ rows # <<>> => Len(handled) <= EarlyTicks
           /\ buffer' = buffer \o rows
           /\ appended' = appended \o rows
    /\ rpc' = "select"
    /\ UNCHANGED <<rconf, rtime, tick, disk, outstanding, rhist>>

\* time passes as in Wait; inside a handler only during the early ticks
EstWait ==
    /\ rpc # "select" => Len(handled) <= EarlyTicks
    /\ Wait

EstGeoms == RecGeoms \cup {Geometry(1920, 1080, 0, 0)}

EstInit ==
    /\ PlayerIdle
    /\ ConvIdle
    /\ rvariant \in EstRecorderVariants
    /\ renv \in {e \in RecEnvs : e.path = "still"}
    /\ rgeom \in EstGeoms
    /\ rpc = "start"
    /\ now = 0
    /\ deadline = -1
    /\ tickerAt = -1
    /\ tickC = <<>>
    /\ startTime = 0
    /\ tick = -1
    /\ buffer = <<>>
    /\ disk = <<>>
    /\ appended = <<>>
    /\ outstanding = 0
    /\ overruns = 0
    /\ dropped = <<>>
    /\ handled = <<>>
    /\ estHeld = <<>>
    /\ softFailed = FALSE
    /\ finished = 0

EstNext ==
    \/ (EstRecStart /\ UNCHANGED <<pvars, conv>>)
    \/ (RecClient /\ UNCHANGED <<pvars, conv>>)
    \/ (RecCreate /\ UNCHANGED <<pvars, conv>>)
    \/ (EstRecHeader /\ UNCHANGED <<pvars, conv>>)
    \/ (\E d1 \in SetupLags, d2 \in StartLags : RecTicker(d1, d2) /\ UNCHANGED <<pvars, conv>>)
    \/ (TickerFire /\ UNCHANGED <<pvars, conv>>)
    \/ (EstWait /\ UNCHANGED <<pvars, conv>>)
    \/ (RecSelectDone /\ UNCHANGED <<pvars, conv>>)
    \/ (EstSelectTick /\ UNCHANGED <<pvars, conv>>)
    \/ (\E o \in AnalyseOutcomes : EstAnalyse(o) /\ UNCHANGED <<pvars, conv>>)
    \/ (EstFail /\ UNCHANGED <<pvars, conv>>)
    \/ (\E c \in Answers : EstAnswer(c) /\ UNCHANGED <<pvars, conv>>)
    \/ (RecKill /\ UNCHANGED <<pvars, conv>>)

SpecEstRecorder == EstInit /\ [][EstNext]_vars

MaxDim == 8

ConvPositions == {<<0, 0>>, <<1, 1>>, <<123, 540>>, <<960, 270>>, <<1919, 1079>>}

\* square screens of every small logical and physical size, replayed on the same
\* or on the doubled geometry; and the 1920x1080 screen replayed on 3840x2160
ConvCases ==
    {[grec |-> Geometry(lw, lw, pw, pw), gplay |-> Geometry(k * lw, k * lw, k * pw, k * pw),
      pos |-> <<x, y>>] :
        lw \in 1..MaxDim, pw \in 1..MaxDim, k \in 1..2, x \in 0..(MaxDim - 1),
        y \in 0..(MaxDim - 1)}
    \cup {[grec |-> Geometry(1920, 1080, 1920, 1080),
           gplay |-> Geometry(3840, 2160, 3840, 2160), pos |-> p] : p \in ConvPositions}

ConvInit ==
    /\ PlayerIdle
    /\ RecorderIdle
    /\ \E c \in ConvCases :
          /\ c.pos[1] < c.grec.lw
          /\ c.pos[2] < c.grec.lh
          /\ conv = [grec |-> c.grec, gplay |-> c.gplay, pos |-> c.pos,
                     text |-> <<>>, replay |-> <<>>, phys |-> <<>>, back |-> <<>>]

ConvNext ==
    \/ (ConvNormalize /\ UNCHANGED <<pvars, rvars>>)
    \/ (ConvReplay /\ UNCHANGED <<pvars, rvars>>)
    \/ (ConvToPhysical /\ UNCHANGED <<pvars, rvars>>)
    \/ (ConvToLogical /\ UNCHANGED <<pvars, rvars>>)

SpecConv == ConvInit /\ [][ConvNext]_vars

(***************************************************************************)
(* The recorder and the player under fair scheduling: main's goroutine is   *)
(* scheduled whenever it can take a step, time passes, a ticker that is due  *)
(* fires and a call bound to ctx returns.  Nothing obliges anyone to kill    *)
(* the recorder, and nothing obliges a goroutine's estimator call to return. *)
(* For the two steps that compute a row or a position, weak fairness is      *)
(* written out with the step's enabling condition, []<>~ENABLED \/ []<>step. *)
(***************************************************************************)

\* the steps of the recorder's main other than the receipt of a tick, the ticker
\* and the passing of time
RecRun ==
    \/ (RecStart /\ UNCHANGED <<pvars, conv>>)
    \/ (RecClient /\ UNCHANGED <<pvars, conv>>)
    \/ (RecCreate /\ UNCHANGED <<pvars, conv>>)
    \/ (RecHeader /\ UNCHANGED <<pvars, conv>>)
    \/ (\E d1 \in SetupLags, d2 \in StartLags : RecTicker(d1, d2) /\ UNCHANGED <<pvars, conv>>)
    \/ (TickerFire /\ UNCHANGED <<pvars, conv>>)
    \/ (Wait /\ UNCHANGED <<pvars, conv>>)
    \/ (RecSelectDone /\ UNCHANGED <<pvars, conv>>)
    \/ (\E o \in AnalyseOutcomes : RecAnalyse(o) /\ UNCHANGED <<pvars, conv>>)
    \/ (\E ok \in BOOLEAN : RecEstimateReturn(ok) /\ UNCHANGED <<pvars, conv>>)

\* RecSelectTick can be taken; a step that is RecSelectTick
TickReady == rpc = "select" /\ tickC # <<>>
TickTaken == rpc = "select" /\ rpc' = "capture"

\* the steps of the player's main other than the call of robotgo.Move
PlayerRun ==
    \/ (PlayerOpen /\ UNCHANGED <<rvars, conv>>)
    \/ (PlayerOpenFail /\ UNCHANGED <<rvars, conv>>)
    \/ (PlayerReadAll /\ UNCHANGED <<rvars, conv>>)
    \/ (PlayerGeometry /\ UNCHANGED <<rvars, conv>>)
    \/ (PlayerSkipRow /\ UNCHANGED <<rvars, conv>>)
    \/ (\E lag \in {0, MoveLag} : PlayerMoveReturn(lag) /\ UNCHANGED <<rvars, conv>>)
    \/ (PlayerFinish /\ UNCHANGED <<rvars, conv>>)

\* PlayerMoveCall can be taken; a step that is PlayerMoveCall
MoveReady == ppc = "loop" /\ idx < Len(records) /\ RowOk(pvariant, records[idx + 1])
MoveCalled == ppc = "loop" /\ ppc' = "moving"

\* where the pointer is has no part in whether a run ends: it stays where it is
LiveInit == (RecInit /\ renv.path = "still") \/ PlayerInit

LiveNext == RecNext \/ PlayerNext

SpecLive ==
    /\ LiveInit
    /\ [][LiveNext]_vars
    /\ WF_vars(RecRun)
    /\ ([]<>(~TickReady) \/ []<><<TickTaken>>_vars)
    /\ WF_vars(PlayerRun)
    /\ ([]<>(~MoveReady) \/ []<><<MoveCalled>>_vars)

(***************************************************************************)
(* Properties.                                                             *)
(***************************************************************************)
IsPrefix(a, b) == Len(a) <= Len(b) /\ SubSeq(b, 1, Len(a)) = a
Abs(n) == IF n < 0 THEN -n ELSE n

\* ---- the player's log ----
DataRows == IF file = <<>> THEN <<>> ELSE Tail(file)
MalformedRows == {i \in 1..Len(DataRows) : ~RowOk(pvariant, DataRows[i])}
OffsetAt(i) == ParseInt(DataRows[i][1]).v

\* the indexes (0-based, as the loop counts them) of the valid rows from row i on
RECURSIVE ValidFrom(_)
ValidFrom(i) ==
    IF i > Len(DataRows) THEN <<>>
    ELSE (IF RowOk(pvariant, DataRows[i]) THEN <<i - 1>> ELSE <<>>) \o ValidFrom(i + 1)

RECURSIVE RowsOf(_)
RowsOf(ps) == IF ps = <<>> THEN <<>> ELSE <<Head(ps).row>> \o RowsOf(Tail(ps))

PlayedRows == RowsOf(played)

RECURSIVE SumSlept(_)
SumSlept(ps) == IF ps = <<>> THEN 0 ELSE Slept(Head(ps).sleep) + SumSlept(Tail(ps))

\* every row is valid and the offsets do not decrease
WellFormedLog ==
    /\ Len(DataRows) >= 1
    /\ ~ReadAll(file).err
    /\ MalformedRows = {}
    /\ OffsetAt(1) >= 0
    /\ \A i \in 1..(Len(DataRows) - 1) : OffsetAt(i) <= OffsetAt(i + 1)

\* ---- the recorder's log ----
RECURSIVE OffsetsOf(_)
OffsetsOf(rows) ==
    IF rows = <<>> THEN <<>> ELSE <<ParseInt(Head(rows)[1]).v>> \o OffsetsOf(Tail(rows))

SampleOffsets(log) == IF log = <<>> THEN <<>> ELSE OffsetsOf(Tail(log))

RECURSIVE EveryPeriod(_, _)
EveryPeriod(first, n) ==
    IF n = 0 THEN <<>> ELSE <<first>> \o EveryPeriod(first + tickPeriod, n - 1)

ExpectedCount == recordingTime \div tickPeriod
OffsetsFromZero == EveryPeriod(0, ExpectedCount)
OffsetsFromPeriod == EveryPeriod(tickPeriod, ExpectedCount)

WithinOne(a, b) == Abs(a[1] - b[1]) <= 1 /\ Abs(a[2] - b[2]) <= 1

\* C1: the estimator never costs the recording a tick: no estimator call holds
\* the tick loop for so long that two ticks come due during it (the second of
\* which finds ticker.C full and is dropped, so its sample is never written).
C1_NoTickLostToEstimator ==
    \A i, j \in 1..Len(estHeld) : i < j => estHeld[i].during # estHeld[j].during

\* C2: a log with exactly one malformed row (wrong field count or unparsable
\* number) among at least two rows is played to the end: one positioning command
\* per valid row, in row order, and one diagnostic.
C2_OneBadRowSkipped ==
    (/\ ppc \in {"done", "fatal_read"}
     /\ Len(DataRows) >= 2
     /\ Cardinality(MalformedRows) = 1)
    => (/\ ppc = "done"
        /\ Len(played) = Len(DataRows) - 1
        /\ PlayedRows = ValidFrom(1)
        /\ Len(diags) = 1)

\* C3: the player does not sleep before the first sample it plays, and before
\* every later one it sleeps that sample's offset minus the previous played one's.
C3_SleepBetweenPlayedSamples ==
    \A k \in 1..Len(played) :
        IF k = 1 THEN Slept(played[k].sleep) = 0
        ELSE played[k].sleep = <<played[k].timestamp - played[k - 1].timestamp>>

\* C4: a run without soft failures and without handler overruns, with the ticker
\* armed in the millisecond the context was created, ends with exactly
\* recordingTime/tickPeriod samples at 0, P, ..., D-P or at P, 2P, ..., D.
C4_ExactlyDOverPSamples ==
    (rpc = "done" /\ ~softFailed /\ overruns = 0 /\ startTime = 0)
    => SampleOffsets(disk) \in {OffsetsFromZero, OffsetsFromPeriod}

\* C5: a position recorded on 1920x1080 and replayed on 3840x2160 arrives at
\* exactly twice its coordinates.
C5_ReplayDoubles ==
    (/\ conv.grec = Geometry(1920, 1080, 1920, 1080)
     /\ conv.gplay = Geometry(3840, 2160, 3840, 2160)
     /\ conv.replay # <<>>)
    => conv.replay = <<2 * conv.pos[1], 2 * conv.pos[2]>>

\* C6 as stated: on every geometry of positive sizes, logical -> physical ->
\* logical moves a valid position by at most one unit per axis.
C6_RoundTripWithinOne ==
    conv.back # <<>> => WithinOne(conv.back, conv.pos)

\* C6 as amended: the same, on the geometries whose physical size is at least the
\* logical size in each axis.
C6_RoundTripWithinOneUpscaled ==
    (/\ conv.back # <<>>
     /\ conv.grec.pw >= conv.grec.lw
     /\ conv.grec.ph >= conv.grec.lh)
    => WithinOne(conv.back, conv.pos)

C6_Witness ==
    /\ conv.back # <<>>
    /\ conv.grec.pw > conv.grec.lw
    /\ conv.back[1] = conv.pos[1] - 1

\* C7 as stated: playing a well-formed log to the end sleeps, in total, the last
\* sample's offset.
C7_TotalSleepIsLastOffset ==
    (ppc = "done" /\ WellFormedLog)
    => SumSlept(played) = OffsetAt(Len(DataRows))

\* C7 as amended: playing a well-formed log to the end sleeps, in total, the last
\* sample's offset minus the first sample's offset.
C7_TotalSleepIsLastMinusFirst ==
    (ppc = "done" /\ WellFormedLog)
    => SumSlept(played) = OffsetAt(Len(DataRows)) - OffsetAt(1)

C7_Witness ==
    /\ ppc = "done"
    /\ WellFormedLog
    /\ OffsetAt(1) > 0
    /\ SumSlept(played) > 0

\* C8: positioning commands are issued one at a time and in log order: at most
\* one robotgo.Move is in flight, and only while the loop waits for it; the rows
\* whose commands have been issued are always the first part of the valid rows in
\* file order, each command carrying its own row's offset; and at the end of
\* playback they are all the valid rows.
C8_MovesInLogOrder ==
    /\ inflight \in {0, 1}
    /\ inflight = 1 <=> ppc = "moving"
    /\ IsPrefix(PlayedRows, ValidFrom(1))
    /\ \A k \in 1..Len(played) : played[k].timestamp = OffsetAt(played[k].row + 1)
    /\ ppc = "done" => PlayedRows = ValidFrom(1)

C8_Witness ==
    /\ ppc = "done"
    /\ Len(played) >= 2
    /\ diags # <<>>
    /\ played[1].pos # played[2].pos

\* C9: when the recorder is killed after appends have returned, the file on disk
\* holds the header and those samples.
C9_AppendsSurviveKill ==
    (rpc = "killed" /\ appended # <<>>)
    => IsPrefix(<<Header>> \o appended, disk)

\* C10: the header is written once and before any sample: whenever the log (the
\* file and what the writer still buffers) has rows, its first row is the header,
\* no other row is, and the samples written so far follow it.
C10_HeaderOnceAndFirst ==
    LET log == disk \o buffer
    IN  /\ log # <<>> => log[1] = Header
        /\ \A i \in 2..Len(log) : log[i] # Header
        /\ rpc \in {"ticker", "select", "capture", "estimate", "done"}
              => log = <<Header>> \o appended

C10_Witness ==
    /\ rpc = "done"
    /\ Len(disk) >= 3
    /\ disk[1] = Header

\* C11: a tick that comes due while the previous tick's handler is still running
\* is neither dropped nor counted twice: the ticker never finds ticker.C full
\* and no tick is received twice.
C11_LateTicksHandledOnce ==
    /\ dropped = <<>>
    /\ \A i, j \in 1..Len(handled) : i < j => handled[i] < handled[j]

\* C12: once the deadline has expired no tick is handled and no sample is
\* appended; "Recording finished." is logged at most once, exactly when main
\* returns, and main stays returned.
C12_StopsAtDeadline ==
    [][/\ Len(handled') > Len(handled) => now <= deadline
       /\ Len(appended') > Len(appended) => now <= deadline
       /\ finished' \in {finished, finished + 1}
       /\ finished' <= 1
       /\ finished' = 1 <=> rpc' = "done"
       /\ rpc = "done" => rpc' = "done"]_vars

\* C13: at every moment at most one estimator call is outstanding.
C13_OneOutstandingCall ==
    outstanding <= 1

\* ---- the recorder's startup ----
FatalStartup == rpc \in {"fatal_key", "fatal_client", "fatal_create"}
BeforeSampling == rpc \in {"start", "client", "create"}
StartupFails == ~renv.apiKey \/ ~renv.clientOk \/ ~renv.createOk

\* C14: a fatal startup error (no credential, no client, no log file) ends the
\* recorder before sampling begins: a run whose startup fails never gets past
\* the startup steps, and in it no ticker exists, no tick is handled, no pointer
\* position is read and no row is written.
C14_FatalStartupBeforeSampling ==
    /\ StartupFails => (BeforeSampling \/ FatalStartup)
    /\ (StartupFails \/ FatalStartup)
          => (/\ handled = <<>>
              /\ appended = <<>>
              /\ buffer = <<>>
              /\ tickerAt = -1
              /\ tick = -1)

C14_Witness ==
    /\ rpc = "fatal_create"
    /\ renv.apiKey
    /\ renv.clientOk
    /\ deadline = recordingTime

ZeroDimension(g) == g.lw = 0 \/ g.lh = 0 \/ g.pw = 0 \/ g.ph = 0

\* C15: a zero screen dimension is fatal: on a screen one of whose sizes is
\* reported as zero the player issues no positioning command.
C15_ZeroDimensionIsFatal ==
    ZeroDimension(pgeom) => played = <<>>

\* the coordinate space a header names, and the one a player's conversion assumes
HeaderSpace(h) == IF h = Header THEN "normalized" ELSE "pixel"
PlayerSpace(variant) == IF variant = "norm" THEN "normalized" ELSE "pixel"

\* C16: the conversion a player applies is the one of the space the log's header
\* names: whenever a positioning command has been issued, the header of the log
\* names the space the running player converts from.
C16_ConversionFollowsHeader ==
    played # <<>> => HeaderSpace(file[1]) = PlayerSpace(pvariant)

\* a step in which an estimator call returns: to the tick handler that made it,
\* or in its goroutine
EstimatorReturns ==
    \/ rpc = "estimate" /\ rpc' = "select"
    \/ outstanding' < outstanding /\ rpc \in {"select", "capture"} /\ rpc' = rpc

\* C17: what the estimator returns never reaches the primary log: the return of
\* an estimator call, with an answer or with an error, leaves the rows written so
\* far as they are and adds none.
C17_EstimatorNeverFeedsLog ==
    [][EstimatorReturns => UNCHANGED <<buffer, disk, appended>>]_vars

\* C18: playback lateness does not compound: in a well-formed log no
\* positioning command is issued before playback start plus its offset minus the
\* first played offset, and a command the player slept for is issued exactly
\* then, also after an earlier command took extra time.
C18_LatenessDoesNotCompound ==
    WellFormedLog
    => \A k \in 1..Len(played) :
           LET due == played[k].timestamp - played[1].timestamp
           IN  /\ played[k].at >= due
               /\ Slept(played[k].sleep) > 0 => played[k].at = due

\* C19: the sample of a tick is appended before the tick's capture and estimator
\* call begin, and no append waits for an estimator call: while a handler is in
\* its capture or in its estimator call the row of every tick received so far has
\* been appended, and no tick waits in ticker.C for a handler that is inside the
\* estimator call.
C19_AppendBeforeAnalysis ==
    /\ rpc \in {"capture", "estimate"} => Len(appended) = Len(handled)
    /\ rpc = "estimate" => tickC = <<>>

\* C20: a soft per-tick failure never ends the sampler, and from then on every
\* tick before the deadline is handled and produces its sample: once a failure
\* has been logged the recorder stays in its loop until the deadline (or until
\* it is killed), every tick received has its row, no tick that comes due before
\* the deadline is dropped, and when main returns no tick sent before the
\* deadline still waits in ticker.C.
C20_SoftFailureKeepsSampling ==
    [][softFailed
       => /\ (rpc' # "killed" /\ ~CtxDone') => Running'
          /\ rpc' \in {"select", "capture", "estimate", "done"}
                => Len(appended') = Len(handled')
          /\ now < deadline => dropped' = dropped
          /\ rpc' = "done" => (tickC' = <<>> \/ Head(tickC') >= deadline)]_vars

\* C21: when the recording ends at the deadline the rows are flushed before the
\* file is closed, after the last append has completed: once main has returned
\* the writer holds nothing back and the file is the header followed by every
\* appended sample, in append order.
C21_FlushedBeforeClose ==
    rpc = "done"
    => /\ buffer = <<>>
       /\ disk = <<Header>> \o appended

\* a run that was still inside a handler when the deadline passed
C21_Witness ==
    /\ rpc = "done"
    /\ Len(appended) >= 2
    /\ disk = <<Header>> \o appended
    /\ handled[Len(handled)] < deadline
    /\ now > deadline

\* C23: in every state of a recording the offsets of the sample rows written so
\* far are non-negative and strictly increasing in row order (so no offset
\* occurs twice).
C23_OffsetsStrictlyIncrease ==
    LET offsets == OffsetsOf(appended)
    IN  /\ \A i \in 1..Len(offsets) : offsets[i] >= 0
        /\ \A i \in 1..(Len(offsets) - 1) : offsets[i] < offsets[i + 1]

\* a recording that lost a tick to a slow handler and started its clock a
\* millisecond after the ticker: the offsets are neither multiples of the period
\* nor evenly spaced
C23_Witness ==
    /\ rpc = "done"
    /\ Len(appended) >= 3
    /\ dropped # <<>>
    /\ startTime > 0
    /\ OffsetsOf(appended)[1] = tickPeriod - 1

\* ---- the ends of a run ----
RecorderEnded == rpc \in {"done", "killed", "fatal_key", "fatal_client", "fatal_create"}
PlayerEnded == ppc \in {"done", "fatal_open", "fatal_read", "fatal_geom"}

\* C22: every run reaches its end: the recorder and the player each end; a
\* recorder that has entered its loop returns from it ("Recording finished.")
\* unless it is killed, whatever fails on the way and also when an estimator
\* call does not answer before the deadline; and a player that has entered its
\* loop reaches "Playback finished.".
C22_RunsReachTheirEnd ==
    /\ <>(RecorderEnded \/ PlayerEnded)
    /\ (rpc = "select") ~> (rpc \in {"done", "killed"})
    /\ (ppc = "loop") ~> (ppc = "done")

\* the handler was inside the estimator call when the deadline passed, the call
\* came back with an error, and main returned
C22_Witness ==
    /\ rpc = "done"
    /\ rvariant = "sync"
    /\ softFailed
    /\ estHeld # <<>>
    /\ estHeld[Len(estHeld)].due >= deadline
=============================================================================
